---- MODULE Spec2Model ----
(***************************************************************************)
(* Request pipeline of the Donetick API client: the TokenBucket rate       *)
(* limiter and the retry loop of DonetickClient._request                   *)
(* (src/src/donetick_mcp/client.py).                                       *)
(*                                                                         *)
(* Time is a discrete clock of ticks.  Token amounts are counted in        *)
(* sub-units (TokenUnit sub-units make one token) so that the fractional   *)
(* token counts of the float-valued bucket are representable.  Sleep       *)
(* durations are kept in milliseconds, as the code computes them, and a    *)
(* sleep ends at the first tick at or after its requested duration (or     *)
(* later: asyncio.sleep lasts at least the time asked for).  A caller runs  *)
(* without interruption from one await that suspends to the next, as a     *)
(* coroutine does on the asyncio event loop: each action is one such run.  *)
(***************************************************************************)
EXTENDS Integers, Sequences, FiniteSets, TLC

\* ------------------------------------------------------------------ bounds
MaxRetries == 3
RetryBudget == 4
MaxTime == 3
Capacity == 2
TokenUnit == 2
TickMs == 60000
MaxAttemptIndex == 7
MaxWaits == 3
MaxChores == 2

\* --------------------------------------------------------- program constants
Rate == 1
BaseDelayMs == 1000
MaxDelayMs == 60000
JitterPct == 25
DefaultRetryAfterMs == 60000

\* Two callers share one client, hence one bucket.
Procs == {1, 2}
CapU == Capacity * TokenUnit

VARIABLES
    now,          \* time.time(), in ticks since the bucket was created
    tokens,       \* TokenBucket.tokens, in sub-units
    last_update,  \* TokenBucket.last_update
    lock,         \* TokenBucket.lock: the holder (head) and the waiters, FIFO
    grantedU,     \* history: sub-units granted since creation
    emptiedAt,    \* history: when a grant last left the bucket empty, or -1
    op,           \* what each caller runs: "request" or "acquire"
    pc,           \* each caller's position
    need,         \* the argument `tokens` of acquire
    max_retries,  \* the argument max_retries of _request
    attempt,      \* the loop variable of _request
    calls,        \* history: HTTP calls issued by the request
    acquired,     \* history: tokens granted to the caller
    wakeAt,       \* the tick at which the caller's asyncio.sleep is over
    outcomes,     \* history: the transport outcome of each attempt
    sleeps,       \* history: the kinds of the request's suspensions, in order
    lastSleep,    \* history: the latest suspension of the request
    waits,        \* history: the suspensions inside acquire
    result,       \* what the caller got: a value or the exception raised
    stage,        \* where the user of the client is: in async with, in call_tool
    tool,         \* call_tool: the argument name
    arguments,    \* call_tool / list_chores: the arguments given
    response,     \* what _request came back with for the operation
    requests,     \* history: the _request calls the operation made
    returned,     \* what the client operation returned or raised
    text,         \* what call_tool returned
    propagated,   \* the exception that left call_tool or the async with block
    is_closed,    \* DonetickClient.client.is_closed
    close_calls   \* history: the calls of DonetickClient.close

vars == <<now, tokens, last_update, lock, grantedU, emptiedAt, op, pc, need, max_retries,
          attempt, calls, acquired, wakeAt, outcomes, sleeps, lastSleep, waits,
          result, stage, tool, arguments, response, requests, returned, text,
          propagated, is_closed, close_calls>>

\* The state of the bucket and of its callers.
coreVars == <<now, tokens, last_update, lock, grantedU, emptiedAt, op, pc, need,
              max_retries, attempt, calls, acquired, wakeAt, outcomes, sleeps, lastSleep,
              waits, result>>

\* The state of the user of the client: an async with block or call_tool.
toolVars == <<stage, tool, arguments, response, requests, returned, text, propagated,
              is_closed, close_calls>>

bucketVars == <<tokens, last_update, lock, grantedU, emptiedAt>>
requestVars == <<max_retries, attempt, calls, outcomes, sleeps, lastSleep, result>>

Min(a, b) == IF a <= b THEN a ELSE b

CeilDiv(a, b) == (a + b - 1) \div b

RECURSIVE Pow2(_)
Pow2(n) == IF n <= 0 THEN 1 ELSE 2 * Pow2(n - 1)

\* -------------------------------------------------------------- transport
\* What one HTTP call can come back with: a response (status, Retry-After
\* header, whether the body parses as JSON), a timeout, or another transport
\* error.  The body of a response is identified by the caller and the index
\* of the call it answers.
RetryAfterHeaders == {"absent", "0.1", "soon"}

Statuses == {200, 400, 404, 429, 500}

Response(s, j) == [kind |-> "response", status |-> s, json_ok |-> j]

TimeoutOutcome == [kind |-> "timeout", status |-> 0, json_ok |-> FALSE]

ConnectErrorOutcome == [kind |-> "connect_error", status |-> 0, json_ok |-> FALSE]

\* Mutant: the parsed body is kept in one place shared by all requests.
BodyShared(p, i) == <<1, i>>

\* response.json() of the response to call i of caller p
Body(p, i) == <<p, i>>

NoResult == [kind |-> "none", status |-> 0, body |-> <<>>]

Returned(b) == [kind |-> "ok", status |-> 200, body |-> b]

Raised(k, s, b) == [kind |-> k, status |-> s, body |-> b]

\* acquire returns (None).
AcquireReturned == [kind |-> "returned", status |-> 0, body |-> <<>>]

\* -------------------------------------------------------------- TokenBucket
\* Mutant: the refill runs at twice the rate.
RefillDouble(t, elapsed) == Min(CapU, t + 2 * elapsed * Rate)

\* Mutant: the refill is not clamped to the capacity.
RefillNoClamp(t, elapsed) == t + elapsed * Rate

\* self.tokens = min(self.capacity, self.tokens + elapsed * self.rate)
Refill(t, elapsed) == Min(CapU, t + elapsed * Rate)

\* Mutant: a balance of exactly the requested tokens is not taken for enough.
EnoughStrict(t, n) == t > n * TokenUnit

\* Mutant: any positive balance admits the caller.
EnoughPositive(t, n) == t > 0

\* if self.tokens >= tokens
Enough(t, n) == t >= n * TokenUnit

\* Mutant: the caller sleeps half the time the missing tokens take.
WaitTicksHalf(t, n) == CeilDiv(n * TokenUnit - t, 2 * Rate)

\* wait_time = (tokens - self.tokens) / self.rate, in ticks (rounded up: the
\* sleep lasts at least that long)
WaitTicks(t, n) == CeilDiv(n * TokenUnit - t, Rate)

\* asyncio.sleep(ms / 1000): the first tick at which the sleep is over
SleepTicks(ms) == CeilDiv(ms, TickMs)

\* One suspension of a request: its kind, its duration, the loop index it
\* happened at and, for a Retry-After wait, the header the server sent.
Sleep(k, ms, a, h) == [kind |-> k, ms |-> ms, attempt |-> a, header |-> h]

NoSleep == Sleep("none", 0, 0, "absent")

\* ------------------------------------------------------ the user of the client
\* Optional[bool] and Optional[int]: None, or a value.
NoneBool == [set |-> FALSE, val |-> FALSE]

SomeBool(b) == [set |-> TRUE, val |-> b]

NoneInt == [set |-> FALSE, val |-> 0]

SomeInt(i) == [set |-> TRUE, val |-> i]

OptBools == {NoneBool, SomeBool(TRUE), SomeBool(FALSE)}

\* User ids and chore ids of the responses.
Users == {0, 1}

ChoreIds == {1, 2}

\* A chore of the response body: isActive may be missing.
RawChores == [id : ChoreIds, isActive : OptBools, assignedTo : Users]

\* Chore(**chore_data): a missing isActive takes the default True.
Chore(raw) ==
    [id |-> raw.id,
     isActive |-> IF raw.isActive.set THEN raw.isActive.val ELSE TRUE,
     assignedTo |-> raw.assignedTo]

\* The bodies of a chore-list response, up to MaxChores chores.
RawLists == UNION {[1..n -> RawChores] : n \in 0..MaxChores}

\* The exceptions _request raises.
FailureKinds == {"HTTPStatusError", "TimeoutException", "Exception", "ConnectError",
                 "JSONDecodeError", "ValueError"}

\* What _request comes back with: the parsed JSON (which the models accept
\* or not) or an exception.
NoResponse == [kind |-> "none", data |-> <<>>, wellformed |-> TRUE]

OkResponse(d) == [kind |-> "ok", data |-> d, wellformed |-> TRUE]

MalformedResponse == [kind |-> "ok", data |-> <<>>, wellformed |-> FALSE]

FailedResponse(k) == [kind |-> k, data |-> <<>>, wellformed |-> TRUE]

Responses(bodies) ==
    {OkResponse(d) : d \in bodies} \cup {MalformedResponse}
        \cup {FailedResponse(k) : k \in FailureKinds}

NoArguments ==
    [filter_active |-> NoneBool, assigned_to_user_id |-> NoneInt, chore_id |-> NoneInt,
     name |-> FALSE]

\* What a client operation gives: a list of chores, one chore, None, True,
\* or an exception.
NoReturn == [kind |-> "none", items |-> <<>>, error |-> "none"]

ReturnedList(cs) == [kind |-> "list", items |-> cs, error |-> "none"]

ReturnedChore(c) == [kind |-> "chore", items |-> <<c>>, error |-> "none"]

ReturnedNone == [kind |-> "None", items |-> <<>>, error |-> "none"]

ReturnedTrue == [kind |-> "True", items |-> <<>>, error |-> "none"]

RaisedError(k) == [kind |-> "raised", items |-> <<>>, error |-> k]

\* The list[TextContent] of call_tool, by what its text says.
NoText == [kind |-> "none", items |-> <<>>, error |-> "none"]

Text(k, cs, e) == [kind |-> k, items |-> cs, error |-> e]

ToolInit ==
    /\ stage = "idle"
    /\ tool = "none"
    /\ arguments = NoArguments
    /\ response = NoResponse
    /\ requests = 0
    /\ returned = NoReturn
    /\ text = NoText
    /\ propagated = "none"
    /\ is_closed = FALSE
    /\ close_calls = 0

Holds(p) == lock # <<>> /\ Head(lock) = p

Init ==
    /\ now = 0
    /\ tokens = CapU
    /\ last_update = 0
    /\ lock = <<>>
    /\ grantedU = 0
    /\ emptiedAt = 0 - 1
    /\ op = [p \in Procs |-> "none"]
    /\ pc = [p \in Procs |-> "idle"]
    /\ need = [p \in Procs |-> 0]
    /\ max_retries = [p \in Procs |-> 0]
    /\ attempt = [p \in Procs |-> 0]
    /\ calls = [p \in Procs |-> 0]
    /\ acquired = [p \in Procs |-> 0]
    /\ wakeAt = [p \in Procs |-> 0]
    /\ outcomes = [p \in Procs |-> <<>>]
    /\ sleeps = [p \in Procs |-> <<>>]
    /\ lastSleep = [p \in Procs |-> NoSleep]
    /\ waits = [p \in Procs |-> 0]
    /\ result = [p \in Procs |-> NoResult]
    /\ ToolInit

\* Time passes, as long as some caller can still act.
Tick ==
    /\ UNCHANGED toolVars
    /\ now < MaxTime
    /\ \E p \in Procs : pc[p] # "done"
    /\ now' = now + 1
    /\ UNCHANGED <<tokens, last_update, lock, grantedU, emptiedAt, op, pc, need,
                   max_retries, attempt, calls, acquired, wakeAt, outcomes, sleeps, lastSleep, waits,
                   result>>

\* Where a caller goes once acquire has returned: a request issues its HTTP
\* call, a direct caller of acquire is done.
AfterAcquire(isRequest) == IF isRequest THEN "call" ELSE "done"

\* Mutant: the caller keeps the lock when acquire returns, for the rest of its
\* attempt.
AcquirePassKeepLock(p, n, isRequest, lk) ==
    LET refilled == Refill(tokens, now - last_update)
    IN  /\ last_update' = now
        /\ IF Enough(refilled, n)
           THEN /\ tokens' = refilled - n * TokenUnit
                /\ grantedU' = grantedU + n * TokenUnit
                /\ emptiedAt' = IF refilled = n * TokenUnit THEN now ELSE 0 - 1
                /\ acquired' = [acquired EXCEPT ![p] = @ + n]
                /\ lock' = lk
                /\ pc' = [pc EXCEPT ![p] = AfterAcquire(isRequest)]
                /\ result' = [result EXCEPT ![p] =
                                 IF isRequest THEN @ ELSE AcquireReturned]
                /\ wakeAt' = [wakeAt EXCEPT ![p] = 0]
                /\ UNCHANGED waits
           ELSE /\ tokens' = refilled
                /\ lock' = lk
                /\ wakeAt' = [wakeAt EXCEPT ![p] = now + WaitTicks(refilled, n)]
                /\ waits' = [waits EXCEPT ![p] = Min(@ + 1, MaxWaits)]
                /\ pc' = [pc EXCEPT ![p] = "bucket_sleep"]
                /\ UNCHANGED <<grantedU, emptiedAt, acquired, result>>

\* One pass of the while loop of acquire(n) by caller p, which holds the lock
\* (lk is the lock with p at its head): refill, then either take the tokens
\* and leave the lock, or go to sleep, inside the lock, for the time the
\* missing tokens take to refill.
AcquirePass(p, n, isRequest, lk) ==
    LET refilled == Refill(tokens, now - last_update)
    IN  /\ last_update' = now
        /\ IF Enough(refilled, n)
           THEN /\ tokens' = refilled - n * TokenUnit
                /\ grantedU' = grantedU + n * TokenUnit
                /\ emptiedAt' = IF refilled = n * TokenUnit THEN now ELSE 0 - 1
                /\ acquired' = [acquired EXCEPT ![p] = @ + n]
                /\ lock' = Tail(lk)
                /\ pc' = [pc EXCEPT ![p] = AfterAcquire(isRequest)]
                /\ result' = [result EXCEPT ![p] =
                                 IF isRequest THEN @ ELSE AcquireReturned]
                /\ wakeAt' = [wakeAt EXCEPT ![p] = 0]
                /\ UNCHANGED waits
           ELSE /\ tokens' = refilled
                /\ lock' = lk
                /\ wakeAt' = [wakeAt EXCEPT ![p] = now + WaitTicks(refilled, n)]
                /\ waits' = [waits EXCEPT ![p] = Min(@ + 1, MaxWaits)]
                /\ pc' = [pc EXCEPT ![p] = "bucket_sleep"]
                /\ UNCHANGED <<grantedU, emptiedAt, acquired, result>>

\* Mutant: the loop of acquire runs without the lock being waited for.
AcquireNoLock(p, n, isRequest) == AcquirePass(p, n, isRequest, <<p>> \o lock)

\* await acquire(n): async with self.lock takes the lock at once when it is
\* free, and the first pass of the loop runs without a suspension in between;
\* otherwise the caller queues behind the holder (asyncio.Lock wakes its
\* waiters first in, first out).
Acquire(p, n, isRequest) ==
    IF lock = <<>>
    THEN AcquirePass(p, n, isRequest, <<p>>)
    ELSE /\ lock' = Append(lock, p)
         /\ pc' = [pc EXCEPT ![p] = "lock_wait"]
         /\ UNCHANGED <<tokens, last_update, grantedU, emptiedAt, acquired, wakeAt,
                        waits, result>>

\* A caller calls acquire(n) directly on the bucket.
StartAcquire(p, n) ==
    /\ pc[p] = "idle"
    /\ op' = [op EXCEPT ![p] = "acquire"]
    /\ need' = [need EXCEPT ![p] = n]
    /\ Acquire(p, n, FALSE)
    /\ UNCHANGED <<now, max_retries, attempt, calls, outcomes, sleeps, lastSleep>>
    /\ UNCHANGED toolVars

\* The holder has left the lock and the first waiter gets it: its loop starts.
LockGranted(p) ==
    /\ pc[p] = "lock_wait"
    /\ Holds(p)
    /\ AcquirePass(p, need[p], op[p] = "request", lock)
    /\ UNCHANGED <<now, op, need, max_retries, attempt, calls, outcomes, sleeps, lastSleep>>
    /\ UNCHANGED toolVars

\* await asyncio.sleep(wait_time) is over: the loop re-evaluates.
BucketWake(p) ==
    /\ pc[p] = "bucket_sleep"
    /\ now >= wakeAt[p]
    /\ AcquirePass(p, need[p], op[p] = "request", lock)
    /\ UNCHANGED <<now, op, need, max_retries, attempt, calls, outcomes, sleeps, lastSleep>>
    /\ UNCHANGED toolVars

\* The lock's queue once caller p has left it.
Without(q, p) == SelectSeq(q, LAMBDA x : x # p)

\* Mutant: the lock is taken and given back by hand, and not on an exception.
CancelAcquireLeak(p) ==
    /\ UNCHANGED toolVars
    /\ op[p] = "acquire"
    /\ pc[p] \in {"lock_wait", "bucket_sleep"}
    /\ lock' = IF Holds(p) THEN lock ELSE Without(lock, p)
    /\ pc' = [pc EXCEPT ![p] = "done"]
    /\ result' = [result EXCEPT ![p] = Raised("CancelledError", 0, <<>>)]
    /\ wakeAt' = [wakeAt EXCEPT ![p] = 0]
    /\ UNCHANGED <<now, tokens, last_update, grantedU, emptiedAt, op, need, max_retries,
                   attempt, calls, acquired, outcomes, sleeps, lastSleep, waits>>

\* The caller of acquire is cancelled at one of its two awaits: waiting to enter
\* "async with self.lock" (it leaves the queue) or in asyncio.sleep inside it
\* (the async with gives the lock back as the CancelledError passes through).
\* Nothing after the await runs, so the balance is not touched.
CancelAcquire(p) ==
    /\ UNCHANGED toolVars
    /\ op[p] = "acquire"
    /\ pc[p] \in {"lock_wait", "bucket_sleep"}
    /\ lock' = Without(lock, p)
    /\ pc' = [pc EXCEPT ![p] = "done"]
    /\ result' = [result EXCEPT ![p] = Raised("CancelledError", 0, <<>>)]
    /\ wakeAt' = [wakeAt EXCEPT ![p] = 0]
    /\ UNCHANGED <<now, tokens, last_update, grantedU, emptiedAt, op, need, max_retries,
                   attempt, calls, acquired, outcomes, sleeps, lastSleep, waits>>

\* ------------------------------------------------------ DonetickClient._request
\* Mutant: the loop runs one index too far.
InRangeInclusive(a, m) == a <= m

\* for attempt in range(max_retries): the loop body runs for this index
InRange(a, m) == a < m

\* Mutant: the last attempt is looked for one index too late.
LastAttemptLate(a, m) == a = m

\* if attempt == max_retries - 1
LastAttempt(a, m) == a = m - 1

\* Mutant: the lower end of the client-error range is left out.
IsClientErrorAbove400(s) == 400 < s /\ s < 500 /\ s # 429

\* 400 <= status_code < 500 and status_code != 429
IsClientError(s) == 400 <= s /\ s < 500 /\ s # 429

\* response.raise_for_status() returns for a success status
IsSuccess(s) == 200 <= s /\ s < 300

\* response.headers.get("Retry-After", "60")
RetryAfterValue(h) == IF h = "absent" THEN "60" ELSE h

\* float(retry_after): the strings that parse, and their value in milliseconds
ParsesAsFloat(v) == v \in {"60", "0.1"}

FloatMs(v) == CASE v = "60" -> DefaultRetryAfterMs [] v = "0.1" -> 100 [] OTHER -> 0

\* Mutant: the delay is not capped.
BackoffDelayNoCap(a) == BaseDelayMs * Pow2(a)

\* delay = min(base_delay * (2**attempt), 60.0)
BackoffDelayMs(a) == Min(BaseDelayMs * Pow2(a), MaxDelayMs)

\* random.uniform(-0.25, 0.25), in percent: the two ends and the middle
JitterChoices == {0 - JitterPct, 0, JitterPct}

\* wait_time = delay + delay * random.uniform(-0.25, 0.25)
BackoffWaitMs(a, j) == BackoffDelayMs(a) + (BackoffDelayMs(a) * j) \div 100

\* The caller leaves _request with a value or an exception.
Finish(p, r) ==
    /\ pc' = [pc EXCEPT ![p] = "done"]
    /\ result' = [result EXCEPT ![p] = r]
    /\ wakeAt' = [wakeAt EXCEPT ![p] = 0]

\* The caller suspends in asyncio.sleep(ms / 1000) inside the loop body.
Suspend(p, k, ms, h) ==
    /\ pc' = [pc EXCEPT ![p] = "request_sleep"]
    /\ sleeps' = [sleeps EXCEPT ![p] = Append(@, k)]
    /\ lastSleep' = [lastSleep EXCEPT ![p] = Sleep(k, ms, attempt[p], h)]
    /\ wakeAt' = [wakeAt EXCEPT ![p] = now + SleepTicks(ms)]
    /\ UNCHANGED result

\* Mutant: the token of an attempt that failed is given back to the bucket.
IssueRefund(p, o) ==
    /\ pc[p] = "call"
    /\ calls' = [calls EXCEPT ![p] = @ + 1]
    /\ outcomes' = [outcomes EXCEPT ![p] = Append(@, o)]
    /\ tokens' = IF o.status = 200 THEN tokens ELSE Min(CapU, tokens + TokenUnit)
    /\ UNCHANGED <<now, last_update, lock, grantedU, emptiedAt, op, need, max_retries,
                   attempt, acquired, waits>>
    /\ UNCHANGED toolVars

\* The HTTP call of the attempt comes back with outcome o.
Issue(p, o) ==
    /\ pc[p] = "call"
    /\ calls' = [calls EXCEPT ![p] = @ + 1]
    /\ outcomes' = [outcomes EXCEPT ![p] = Append(@, o)]
    /\ UNCHANGED <<now, bucketVars, op, need, max_retries, attempt, acquired, waits>>
    /\ UNCHANGED toolVars

\* Mutant: the last failure is replaced by the generic exhausted error.
RetryOrRaiseGeneric(p, err, j) ==
    IF LastAttempt(attempt[p], max_retries[p])
    THEN Finish(p, Raised("Exception", 0, <<>>)) /\ UNCHANGED <<sleeps, lastSleep>>
    ELSE Suspend(p, "backoff", BackoffWaitMs(attempt[p], j), "absent")

\* Mutant: the delay grows with the number of backoffs so far, not with the
\* loop index.
RetryOrRaiseOwnCount(p, err, j) ==
    IF LastAttempt(attempt[p], max_retries[p])
    THEN Finish(p, err) /\ UNCHANGED <<sleeps, lastSleep>>
    ELSE Suspend(p, "backoff",
                 BackoffWaitMs(Len(SelectSeq(sleeps[p], LAMBDA k : k = "backoff")), j),
                 "absent")

\* except TimeoutException / except HTTPStatusError (not a client error):
\* re-raise on the last attempt, back off otherwise.
RetryOrRaise(p, err, j) ==
    IF LastAttempt(attempt[p], max_retries[p])
    THEN Finish(p, err) /\ UNCHANGED <<sleeps, lastSleep>>
    ELSE Suspend(p, "backoff", BackoffWaitMs(attempt[p], j), "absent")

\* Mutant: the token is acquired once, before the loop, and not per attempt.
LoopStepAcquireOnce(p, a, m) ==
    IF InRange(a, m)
    THEN IF a = 0
         THEN Acquire(p, 1, TRUE)
         ELSE /\ pc' = [pc EXCEPT ![p] = "call"]
              /\ wakeAt' = [wakeAt EXCEPT ![p] = 0]
              /\ UNCHANGED <<bucketVars, acquired, waits, result>>
    ELSE /\ Finish(p, Raised("Exception", 0, <<>>))
         /\ UNCHANGED <<bucketVars, acquired, waits>>

\* The body of the for loop starts for index a, if a is in range(max_retries):
\* the caller acquires one token.  Otherwise the loop is over and the final
\* raise Exception("Failed after ... retries") is reached.
LoopStep(p, a, m) ==
    IF InRange(a, m)
    THEN Acquire(p, 1, TRUE)
    ELSE /\ Finish(p, Raised("Exception", 0, <<>>))
         /\ UNCHANGED <<bucketVars, acquired, waits>>

RECURSIVE SumRetries(_)
SumRetries(S) ==
    IF S = {} THEN 0
    ELSE LET q == CHOOSE x \in S : TRUE IN max_retries[q] + SumRetries(S \ {q})

\* A caller calls _request(method, path, max_retries = m).  The attempts of
\* all requests together are kept within RetryBudget.
StartRequest(p, m) ==
    /\ pc[p] = "idle"
    /\ SumRetries(Procs) + m <= RetryBudget
    /\ op' = [op EXCEPT ![p] = "request"]
    /\ max_retries' = [max_retries EXCEPT ![p] = m]
    /\ need' = [need EXCEPT ![p] = 1]
    /\ LoopStep(p, 0, m)
    /\ UNCHANGED <<now, attempt, calls, outcomes, sleeps, lastSleep>>
    /\ UNCHANGED toolVars

\* The response is a success: return response.json().
CallSuccess(p, json_ok) ==
    /\ Issue(p, Response(200, json_ok))
    /\ IF json_ok
       THEN Finish(p, Returned(Body(p, calls[p] + 1)))
       ELSE Finish(p, Raised("JSONDecodeError", 0, <<>>))
    /\ UNCHANGED <<sleeps, lastSleep>>

\* Mutant: a 429 is handled like a server error, with exponential backoff.
CallRateLimitedBackoff(p, h) ==
    /\ Issue(p, Response(429, FALSE))
    /\ RetryOrRaise(p, Raised("HTTPStatusError", 429, Body(p, calls[p] + 1)), 0)

\* The response is a 429 with Retry-After header h.
CallRateLimited(p, h) ==
    /\ Issue(p, Response(429, FALSE))
    /\ IF ParsesAsFloat(RetryAfterValue(h))
       THEN Suspend(p, "retry_after", FloatMs(RetryAfterValue(h)), h)
       ELSE /\ Finish(p, Raised("ValueError", 0, <<>>))
            /\ sleeps' = sleeps
            /\ lastSleep' = [lastSleep EXCEPT ![p] = Sleep("none", 0, attempt[p], h)]

\* The response has an error status other than 429: raise_for_status raises
\* HTTPStatusError, which carries the response.
CallStatusError(p, s, j) ==
    /\ ~IsSuccess(s) /\ s # 429
    /\ Issue(p, Response(s, FALSE))
    /\ LET err == Raised("HTTPStatusError", s, Body(p, calls[p] + 1))
       IN  IF IsClientError(s)
           THEN Finish(p, err) /\ UNCHANGED <<sleeps, lastSleep>>
           ELSE RetryOrRaise(p, err, j)

\* The transport times out.
CallTimeout(p, j) ==
    /\ Issue(p, TimeoutOutcome)
    /\ RetryOrRaise(p, Raised("TimeoutException", 0, <<>>), j)

\* Mutant: every error of the transport is retried like a timeout.
CallTransportErrorRetried(p) ==
    /\ Issue(p, ConnectErrorOutcome)
    /\ RetryOrRaise(p, Raised("ConnectError", 0, <<>>), 0)

\* The transport fails otherwise (httpx.ConnectError): no handler catches it.
CallTransportError(p) ==
    /\ Issue(p, ConnectErrorOutcome)
    /\ Finish(p, Raised("ConnectError", 0, <<>>))
    /\ UNCHANGED <<sleeps, lastSleep>>

\* The sleep of the loop body is over: the for loop takes its next index.
RequestWake(p) ==
    /\ pc[p] = "request_sleep"
    /\ now >= wakeAt[p]
    /\ attempt' = [attempt EXCEPT ![p] = @ + 1]
    /\ LoopStep(p, attempt[p] + 1, max_retries[p])
    /\ UNCHANGED <<now, op, need, max_retries, calls, outcomes, sleeps, lastSleep>>
    /\ UNCHANGED toolVars

Next ==
    \/ Tick
    \/ \E p \in Procs : \E n \in 1..(Capacity + 1) : StartAcquire(p, n)
    \/ \E p \in Procs : \E m \in 0..MaxRetries : StartRequest(p, m)
    \/ \E p \in Procs : LockGranted(p)
    \/ \E p \in Procs : BucketWake(p)
    \/ \E p \in Procs : CancelAcquire(p)
    \/ \E p \in Procs : \E j \in BOOLEAN : CallSuccess(p, j)
    \/ \E p \in Procs : \E h \in RetryAfterHeaders : CallRateLimited(p, h)
    \/ \E p \in Procs : \E s \in Statuses : \E j \in JitterChoices : CallStatusError(p, s, j)
    \/ \E p \in Procs : \E j \in JitterChoices : CallTimeout(p, j)
    \/ \E p \in Procs : CallTransportError(p)
    \/ \E p \in Procs : RequestWake(p)

Spec == Init /\ [][Next]_vars
\* ------------------------------------------------------------------ claims
Last(q) == q[Len(q)]

IsRequest(p) == op[p] = "request"

AllOutcomes(p, o) == \A i \in 1..Len(outcomes[p]) : outcomes[p][i] = o

AllTimeouts(p) == AllOutcomes(p, TimeoutOutcome)

All500(p) == AllOutcomes(p, Response(500, FALSE))

Has429(p) == \E i \in 1..Len(outcomes[p]) : outcomes[p][i].status = 429

\* C1: a request never issues more HTTP calls than max_retries, whatever the
\* outcomes of its attempts; an attempt answered with 429 is one of them.
RetryCeiling ==
    \A p \in Procs :
        IsRequest(p) => /\ calls[p] <= max_retries[p]
                        /\ calls[p] = Len(outcomes[p])
                        /\ attempt[p] <= max_retries[p]

\* A request that used its whole budget of three calls, one of them a 429.
RetryCeilingWitness ==
    \E p \in Procs :
        /\ pc[p] = "done"
        /\ max_retries[p] = 3
        /\ calls[p] = 3
        /\ Has429(p)
        /\ \E i \in 1..3 : outcomes[p][i] = TimeoutOutcome

\* C2: a response with a status in 400..499 other than 429 ends the request
\* at once: it is the last call, no token is acquired and no suspension
\* happens after it, and the error raised carries its status and body.
ClientErrorFailsFast ==
    \A p \in Procs :
        \A i \in 1..Len(outcomes[p]) :
            LET o == outcomes[p][i]
            IN  (o.kind = "response" /\ o.status \in (400..499) \ {429}) =>
                    /\ i = Len(outcomes[p])
                    /\ pc[p] = "done"
                    /\ calls[p] = i
                    /\ acquired[p] = i
                    /\ Len(sleeps[p]) = i - 1
                    /\ result[p] = Raised("HTTPStatusError", o.status, Body(p, i))

\* A 400 and a 404 have each ended a request, one of them after a retry.
ClientErrorFailsFastWitness ==
    /\ \E p \in Procs : result[p].status = 404 /\ calls[p] = 2 /\ max_retries[p] = 3
    /\ \E p \in Procs : result[p].status = 400

\* C3: the tokens granted since the bucket was created never exceed the
\* capacity plus what the rate refills in the time elapsed since.
NoOversubscription == grantedU <= CapU + Rate * now

\* Both callers were granted tokens, one after waiting, and the grants have
\* used up all that the bound allows.
NoOversubscriptionWitness ==
    /\ now > 0
    /\ grantedU = CapU + Rate * now
    /\ \A p \in Procs : acquired[p] > 0
    /\ \E p \in Procs : waits[p] > 0

\* C4: the bucket's tokens stay within 0 and the capacity.
TokensInRange == 0 <= tokens /\ tokens <= CapU

\* An acquire after an idle time that would have refilled beyond the
\* capacity: the excess was dropped.
TokensInRangeWitness ==
    /\ grantedU > 0
    /\ tokens + grantedU < CapU + Rate * last_update

\* C5 (as claimed): a caller that sleeps for refill does not keep the lock,
\* so a caller for which enough tokens are available is never held up
\* behind it.
SleeperDoesNotBlock ==
    \A p, q \in Procs :
        ~ /\ pc[p] = "bucket_sleep"
          /\ need[p] <= Capacity
          /\ pc[q] = "lock_wait"
          /\ Refill(tokens, now - last_update) >= need[q] * TokenUnit

\* C6 (as claimed): acquire(n) with n above the capacity is rejected, it is
\* never suspended to wait for a refill that cannot come.
OverCapacityRejected ==
    \A p \in Procs : pc[p] = "bucket_sleep" => need[p] <= Capacity

\* C7: a 429 followed by a success whose body parses: two calls, the parsed
\* body of the second response returned, one suspension between them, for
\* the Retry-After value, and one loop index used by the 429.
RateLimitedThenSuccess ==
    \A p \in Procs :
        outcomes[p] = <<Response(429, FALSE), Response(200, TRUE)>> =>
            /\ calls[p] = 2
            /\ pc[p] = "done"
            /\ result[p] = Returned(Body(p, 2))
            /\ sleeps[p] = <<"retry_after">>
            /\ lastSleep[p].attempt = 0
            /\ (lastSleep[p].header = "0.1" => lastSleep[p].ms = 100)
            /\ (lastSleep[p].header = "absent" => lastSleep[p].ms = 60000)
            /\ lastSleep[p].header \in {"0.1", "absent"}
            /\ attempt[p] = 1

\* The scenario of the test: Retry-After: 0.1, then a 200.
RateLimitedThenSuccessWitness ==
    \E p \in Procs :
        /\ outcomes[p] = <<Response(429, FALSE), Response(200, TRUE)>>
        /\ lastSleep[p].header = "0.1"
        /\ result[p].kind = "ok"

\* C8 (as claimed): a 429 whose Retry-After is absent or does not parse makes
\* the request sleep the default 60 s; it does not fail the request.
DefaultRetryAfter ==
    \A p \in Procs :
        ( /\ outcomes[p] # <<>>
          /\ Last(outcomes[p]).status = 429
          /\ lastSleep[p].attempt = Len(outcomes[p]) - 1
          /\ lastSleep[p].header \in {"absent", "soon"} ) =>
            /\ lastSleep[p].kind = "retry_after"
            /\ lastSleep[p].ms = 60000
            /\ result[p].kind # "ValueError"

\* C9: a request whose attempts all time out, or all return 500, makes
\* max_retries calls, backs off after each but the last, and ends with the
\* last failure itself, with no suspension after it.
AlwaysFailing ==
    \A p \in Procs :
        (IsRequest(p) /\ outcomes[p] # <<>> /\ (AllTimeouts(p) \/ All500(p))) =>
            LET k == Len(outcomes[p])
                N == max_retries[p]
            IN  /\ calls[p] = k
                /\ k <= N
                /\ \A i \in 1..Len(sleeps[p]) : sleeps[p][i] = "backoff"
                /\ IF k = N
                   THEN /\ pc[p] = "done"
                        /\ Len(sleeps[p]) = N - 1
                        /\ result[p] = IF AllTimeouts(p)
                                       THEN Raised("TimeoutException", 0, <<>>)
                                       ELSE Raised("HTTPStatusError", 500, Body(p, N))
                   ELSE /\ pc[p] # "done"
                        /\ Len(sleeps[p]) = k

\* Three attempts, three timeouts.
AlwaysFailingWitness ==
    \E p \in Procs :
        /\ max_retries[p] = 3
        /\ Len(outcomes[p]) = 3
        /\ AllTimeouts(p)
        /\ pc[p] = "done"

ExhaustedAll500(p) ==
    /\ IsRequest(p)
    /\ pc[p] = "done"
    /\ max_retries[p] >= 1
    /\ Len(outcomes[p]) = max_retries[p]
    /\ All500(p)

\* C10 (as claimed): 500 on every one of the max_retries attempts ends in
\* the generic retries-exhausted error.
All500EndsExhausted ==
    \A p \in Procs : ExhaustedAll500(p) => result[p].kind = "Exception"

\* C10 (amended): 500 on every one of the max_retries attempts ends, after
\* exactly max_retries calls, in the HTTP status error of the last response.
All500EndsInStatusError ==
    \A p \in Procs :
        ExhaustedAll500(p) =>
            /\ calls[p] = max_retries[p]
            /\ result[p] = Raised("HTTPStatusError", 500, Body(p, max_retries[p]))

\* The scenario of the specification: three attempts, three 500s.
All500Witness == \E p \in Procs : ExhaustedAll500(p) /\ max_retries[p] = 3

\* ------------------------------------------------------------------ C11..C20
\* The HTTP calls request p has issued: those that have come back and the one
\* in flight.
Issued(p) == calls[p] + (IF pc[p] = "call" THEN 1 ELSE 0)

RECURSIVE SumAcquired(_)
SumAcquired(S) ==
    IF S = {} THEN 0
    ELSE LET q == CHOOSE x \in S : TRUE IN acquired[q] + SumAcquired(S \ {q})

\* C12: every attempt of a request acquires exactly one token before its
\* HTTP call: a request holds as many tokens as it has issued calls, one of
\* them for the call in flight, so a request that ended after k attempts took
\* k tokens; and every token ever acquired stays granted (none is given back).
OneTokenPerAttempt ==
    /\ \A p \in Procs :
           IsRequest(p) =>
               /\ acquired[p] = Issued(p)
               /\ calls[p] = Len(outcomes[p])
               /\ pc[p] = "call" => acquired[p] = attempt[p] + 1
               /\ pc[p] = "done" => acquired[p] = calls[p]
    /\ grantedU = SumAcquired(Procs) * TokenUnit

\* Three attempts that all failed: three calls, three tokens.
OneTokenPerAttemptWitness ==
    \E p \in Procs :
        /\ IsRequest(p)
        /\ pc[p] = "done"
        /\ calls[p] = 3
        /\ acquired[p] = 3
        /\ result[p].kind # "ok"

\* C13: when acquire(k) is evaluated and the refilled balance holds at least k
\* tokens, the caller gets exactly k tokens in that step, the balance is the
\* refilled balance less k, and the caller does not suspend; a caller
\* suspends only when the refilled balance is short of k.
GrantWhenEnough ==
    [][\A p \in Procs :
          LET refilled == Min(CapU, tokens + (now - last_update) * Rate)
              k == need'[p]
          IN  /\ waits'[p] > waits[p] => refilled < k * TokenUnit
              /\ acquired'[p] > acquired[p] =>
                     /\ refilled >= k * TokenUnit
                     /\ acquired'[p] = acquired[p] + k
                     /\ tokens' = refilled - k * TokenUnit
                     /\ waits'[p] = waits[p]
                     /\ pc'[p] \in {"call", "done"}]_vars

\* acquire(k) with k the whole capacity on the new, full bucket: granted at
\* once, nothing is left.
GrantWhenEnoughWitness ==
    \E p \in Procs :
        /\ op[p] = "acquire"
        /\ need[p] = Capacity
        /\ acquired[p] = Capacity
        /\ waits[p] = 0
        /\ tokens = 0
        /\ last_update = 0

\* C14: once a grant has left the bucket empty, the next grant of tokens
\* comes no earlier than the time those tokens take to refill at the rate
\* (1/rate seconds for one token) after the bucket was emptied.
EmptyThenWait ==
    [][\A p \in Procs :
          (acquired'[p] > acquired[p] /\ emptiedAt >= 0) =>
              (now - emptiedAt) * Rate >= (acquired'[p] - acquired[p]) * TokenUnit]_vars

\* The whole capacity of the full bucket went to one caller, and the next
\* caller of acquire(1) had to suspend before it got its token.
EmptyThenWaitWitness ==
    \E a, b \in Procs :
        /\ op[a] = "acquire" /\ need[a] = Capacity /\ acquired[a] = Capacity
        /\ waits[a] = 0
        /\ op[b] = "acquire" /\ need[b] = 1 /\ acquired[b] = 1
        /\ waits[b] >= 1
        /\ now * Rate >= TokenUnit

InLock(p) == \E i \in 1..Len(lock) : lock[i] = p

\* C16: a request suspended in its backoff or Retry-After wait is not in the
\* bucket's lock, neither as its holder nor queued for it, so the lock is
\* free for the other requests to acquire their tokens and issue their calls.
SleepsOutsideLock ==
    \A p \in Procs : pc[p] = "request_sleep" => ~InLock(p)

\* One request is still suspended in its wait; the other has taken a token
\* at the current time, through the free lock, and has its call in flight.
SleepsOutsideLockWitness ==
    \E p, q \in Procs :
        /\ p # q
        /\ pc[p] = "request_sleep" /\ now < wakeAt[p]
        /\ IsRequest(q) /\ pc[q] = "call"
        /\ last_update = now /\ now > 0
        /\ lock = <<>>

\* C17: a caller cancelled while it waits in acquire, for the lock or for the
\* refill inside it, gets no tokens: the balance, the grants and every
\* caller's tokens are as before, the caller is out of the lock (the holder
\* hands it to the next waiter), and no caller that is done stays in the lock.
CancelLeavesBucket ==
    /\ [](\A p \in Procs : pc[p] = "done" => ~InLock(p))
    /\ [][\A p \in Procs :
             (result'[p].kind = "CancelledError" /\ result[p].kind # "CancelledError") =>
                 /\ tokens' = tokens
                 /\ grantedU' = grantedU
                 /\ acquired' = acquired
                 /\ \A i \in 1..Len(lock') : lock'[i] # p
                 /\ Holds(p) => lock' = Tail(lock)]_vars

\* A caller that slept twice in the lock (it asked for more than the
\* capacity) was cancelled, and the other caller then took the whole
\* capacity: the balance is zero, which it was not while the first one slept.
CancelLeavesBucketWitness ==
    \E p, q \in Procs :
        /\ p # q
        /\ result[p].kind = "CancelledError" /\ waits[p] >= 2
        /\ op[q] = "acquire" /\ need[q] = Capacity /\ acquired[q] = Capacity
        /\ tokens = 0

\* C18: when every caller runs a request and every call is answered with a
\* 2xx and a JSON body, each request that has its answer is done with the
\* body parsed from its own response after exactly one call and one token,
\* and once all have their answer one token per request has been granted.
ConcurrentSuccess ==
    (\A p \in Procs : IsRequest(p) /\ max_retries[p] >= 1
                          /\ AllOutcomes(p, Response(200, TRUE))) =>
        /\ \A p \in Procs :
               IF outcomes[p] # <<>>
               THEN /\ pc[p] = "done"
                    /\ result[p] = [kind |-> "ok", status |-> 200, body |-> <<p, 1>>]
                    /\ calls[p] = 1
                    /\ acquired[p] = 1
               ELSE pc[p] = "call" /\ acquired[p] = 1
        /\ grantedU = Cardinality(Procs) * TokenUnit

\* Both requests were started and answered within the same tick.
ConcurrentSuccessWitness ==
    /\ \A p \in Procs : IsRequest(p) /\ outcomes[p] = <<Response(200, TRUE)>>
                          /\ pc[p] = "done"
    /\ now = 0

\* The endings of a request, each with what it rests on.
EndsAs(p, kind) ==
    LET n == Len(outcomes[p])
        last == outcomes[p][n]
    IN  CASE kind = "ok" ->
                 /\ n >= 1 /\ last = Response(200, TRUE)
                 /\ result[p].body = <<p, n>>
          [] kind = "HTTPStatusError" ->
                 /\ n >= 1 /\ last.kind = "response"
                 /\ result[p].status = last.status
                 /\ result[p].body = <<p, n>>
                 /\ \/ IsClientError(last.status)
                    \/ last.status >= 500 /\ n = max_retries[p]
          [] kind = "TimeoutException" ->
                 /\ n >= 1 /\ last = TimeoutOutcome /\ n = max_retries[p]
                 /\ result[p].body = <<>>
          [] kind = "Exception" ->
                 /\ n = max_retries[p]
                 /\ n >= 1 => last = Response(429, FALSE)
                 /\ result[p].body = <<>>
          [] kind = "ConnectError" ->
                 /\ n >= 1 /\ last = ConnectErrorOutcome
                 /\ result[p].body = <<>>
          [] kind = "JSONDecodeError" ->
                 /\ n >= 1 /\ last = Response(200, FALSE)
                 /\ result[p].body = <<>>
          [] kind = "ValueError" ->
                 /\ n >= 1 /\ last = Response(429, FALSE)
                 /\ ~ParsesAsFloat(RetryAfterValue(lastSleep[p].header))
                 /\ result[p].body = <<>>
          [] OTHER -> FALSE

JitterRange == (0 - JitterPct)..JitterPct

BackoffInit ==
    /\ now = 0
    /\ tokens = CapU
    /\ last_update = 0
    /\ lock = <<>>
    /\ grantedU = 0
    /\ emptiedAt = 0 - 1
    /\ op = [p \in Procs |-> "none"]
    /\ pc = [p \in Procs |-> "idle"]
    /\ need = [p \in Procs |-> 0]
    /\ max_retries = [p \in Procs |-> 0]
    /\ \E a \in 0..MaxAttemptIndex : attempt = [p \in Procs |-> a]
    /\ calls = [p \in Procs |-> 0]
    /\ acquired = [p \in Procs |-> 0]
    /\ wakeAt = [p \in Procs |-> 0]
    /\ outcomes = [p \in Procs |-> <<>>]
    /\ sleeps = [p \in Procs |-> <<>>]
    /\ lastSleep = [p \in Procs |-> NoSleep]
    /\ waits = [p \in Procs |-> 0]
    /\ result = [p \in Procs |-> NoResult]
    /\ ToolInit

\* delay and wait_time are computed for the attempt index, with jitter j.
ComputeBackoff(p, j) ==
    /\ UNCHANGED toolVars
    /\ lastSleep[p] = NoSleep
    /\ lastSleep' = [lastSleep EXCEPT ![p] =
                        Sleep("backoff", BackoffWaitMs(attempt[p], j), attempt[p], "absent")]
    /\ UNCHANGED <<now, bucketVars, op, pc, need, max_retries, attempt, calls, acquired,
                   wakeAt, outcomes, sleeps, waits, result>>

BackoffNext == \E p \in Procs : \E j \in JitterRange : ComputeBackoff(p, j)

BackoffSpec == BackoffInit /\ [][BackoffNext]_vars

\* C19: the wait after a retryable failure at attempt index a is within a
\* quarter of d = min(1 s * 2^a, 60 s) of d: at least 0.75 d, at most 1.25 d,
\* more than zero and never more than 75 s.
BackoffWithinBounds ==
    \A p \in Procs :
        lastSleep[p].kind = "backoff" =>
            LET a == lastSleep[p].attempt
                d == IF 1000 * Pow2(a) < 60000 THEN 1000 * Pow2(a) ELSE 60000
                w == lastSleep[p].ms
            IN  /\ 4 * w >= 3 * d
                /\ 4 * w <= 5 * d
                /\ w > 0
                /\ w <= 75000

\* The capped delay with the largest jitter: 75 s, at attempt index 6 or later.
BackoffWithinBoundsWitness ==
    \E p \in Procs :
        /\ lastSleep[p].kind = "backoff"
        /\ lastSleep[p].attempt >= 6
        /\ lastSleep[p].ms = 75000

\* ------------------------------------------------- the bucket with running time
\* The bucket with callers of acquire only, and a clock that does not stop.
Max(a, b) == IF a > b THEN a ELSE b

\* The time a bucket takes to refill whatever its balance.
SatTicks == CeilDiv(CapU, Rate)

\* Time passes beyond MaxTime.  acquire only uses differences of clock
\* readings (now - last_update, and the sleep up to wakeAt), so the step is
\* written as a move of the origin of the clock: every stored reading is one
\* tick earlier.  A reading older than a full refill, or a wake-up time in
\* the past, has the same effect as the oldest that is kept; the history of
\* the last emptying is kept up to MaxTime only.
ClockWraps ==
    /\ UNCHANGED toolVars
    /\ now = MaxTime
    /\ \E p \in Procs : pc[p] # "done"
    /\ last_update' = Max(last_update - 1, MaxTime - SatTicks)
    /\ wakeAt' = [p \in Procs |-> Max(wakeAt[p] - 1, 0)]
    /\ emptiedAt' = 0 - 1
    /\ UNCHANGED <<now, tokens, lock, grantedU, op, pc, need, max_retries, attempt, calls,
                   acquired, outcomes, sleeps, lastSleep, waits, result>>

BucketNext ==
    \/ Tick
    \/ ClockWraps
    \/ \E p \in Procs : \E n \in 1..(Capacity + 1) : StartAcquire(p, n)
    \/ \E p \in Procs : LockGranted(p)
    \/ \E p \in Procs : BucketWake(p)
    \/ \E p \in Procs : CancelAcquire(p)

\* The event loop runs every task that can run and fires every timer that is
\* due, and time passes.  Nothing obliges a caller to start or to be cancelled.
BucketFairness ==
    /\ WF_vars(Tick \/ ClockWraps)
    /\ \A p \in Procs : WF_vars(LockGranted(p) \/ BucketWake(p))

BucketSpec == Init /\ [][BucketNext]_vars /\ BucketFairness

\* C15: every caller of acquire(n) with n within the capacity that is not
\* cancelled is granted its tokens in the end, whatever the other callers do.
EveryCallerGranted ==
    \A p \in Procs :
        [](op[p] = "acquire" /\ need[p] <= Capacity =>
               <>(acquired[p] = need[p] \/ result[p].kind = "CancelledError"))

\* What does hold: a caller within the capacity is granted in the end unless
\* it is cancelled or some caller asks for more than the capacity.
GrantedAmongFitting ==
    \A p \in Procs :
        [](op[p] = "acquire" /\ need[p] <= Capacity =>
               <>(\/ acquired[p] = need[p]
                  \/ result[p].kind = "CancelledError"
                  \/ \E q \in Procs : need[q] > Capacity))

\* C11 (as claimed): a request with max_retries = N >= 1 whose every attempt
\* is answered with 429 is over after exactly N calls, with the
\* retries-exhausted error.
All429Exhausts ==
    \A p \in Procs :
        (/\ IsRequest(p) /\ pc[p] = "done"
         /\ outcomes[p] # <<>>
         /\ AllOutcomes(p, Response(429, FALSE))) =>
            /\ calls[p] = max_retries[p]
            /\ result[p] = Raised("Exception", 0, <<>>)

\* ------------------------------------------- the client operations and call_tool
\* chores = [Chore(**chore_data) for chore_data in data]
ParseChores(d) == [i \in 1..Len(d) |-> Chore(d[i])]

\* Mutant: the filter is applied when filter_active is true, not when it is given.
FilterByActiveTruthy(cs, fa) ==
    IF fa.set /\ fa.val THEN SelectSeq(cs, LAMBDA c : c.isActive = fa.val) ELSE cs

\* if filter_active is not None: chores = [c for c in chores if c.isActive == filter_active]
FilterByActive(cs, fa) ==
    IF fa.set THEN SelectSeq(cs, LAMBDA c : c.isActive = fa.val) ELSE cs

\* if assigned_to_user_id is not None: chores = [c ... if c.assignedTo == assigned_to_user_id]
FilterByAssigned(cs, uid) ==
    IF uid.set THEN SelectSeq(cs, LAMBDA c : c.assignedTo = uid.val) ELSE cs

\* list_chores(filter_active, assigned_to_user_id), given what its one
\* _request("GET", "/eapi/v1/chore") came back with.
ListChores(resp, fa, uid) ==
    IF resp.kind # "ok" THEN RaisedError(resp.kind)
    ELSE IF ~resp.wellformed THEN RaisedError("ValidationError")
    ELSE ReturnedList(FilterByAssigned(FilterByActive(ParseChores(resp.data), fa), uid))

\* get_chore(chore_id): list_chores() and the first chore with that id, or None.
GetChore(resp, id) ==
    LET r == ListChores(resp, NoneBool, NoneInt)
        hits == {i \in 1..Len(r.items) : r.items[i].id = id}
    IN  IF r.kind # "list" THEN r
        ELSE IF hits = {} THEN ReturnedNone
        ELSE ReturnedChore(r.items[CHOOSE i \in hits : \A k \in hits : i <= k])

\* create_chore / complete_chore: Chore(**data) of the one _request.
OneChore(resp) ==
    IF resp.kind # "ok" THEN RaisedError(resp.kind)
    ELSE IF ~resp.wellformed \/ Len(resp.data) # 1 THEN RaisedError("ValidationError")
    ELSE ReturnedChore(Chore(resp.data[1]))

\* delete_chore: the result of the _request is not looked at.
DeleteChore(resp) == IF resp.kind # "ok" THEN RaisedError(resp.kind) ELSE ReturnedTrue

ToolNames == {"list_chores", "get_chore", "create_chore", "complete_chore",
              "delete_chore", "no_such_tool"}

KnownTools == ToolNames \ {"no_such_tool"}

OptUsers == {NoneInt} \cup {SomeInt(u) : u \in Users}

OptChoreIds == {NoneInt} \cup {SomeInt(i) : i \in ChoreIds \cup {0}}

\* The arguments a tool looks at.
ArgumentsOf(name) ==
    CASE name = "list_chores" ->
             {[NoArguments EXCEPT !.filter_active = fa, !.assigned_to_user_id = uid] :
                  fa \in OptBools, uid \in OptUsers}
      [] name \in {"get_chore", "complete_chore", "delete_chore"} ->
             {[NoArguments EXCEPT !.chore_id = id] : id \in OptChoreIds}
      [] name = "create_chore" -> {[NoArguments EXCEPT !.name = b] : b \in BOOLEAN}
      [] OTHER -> {NoArguments}

\* arguments["chore_id"] / arguments["name"] raises KeyError.
MissingKey(name, a) ==
    \/ name \in {"get_chore", "complete_chore", "delete_chore"} /\ ~a.chore_id.set
    \/ name = "create_chore" /\ ~a.name

\* The client operation of a tool, given what its _request came back with.
ToolOperation(name, a, resp) ==
    CASE name = "list_chores" -> ListChores(resp, a.filter_active, a.assigned_to_user_id)
      [] name = "get_chore" -> GetChore(resp, a.chore_id.val)
      [] name = "delete_chore" -> DeleteChore(resp)
      [] OTHER -> OneChore(resp)

\* The text of the result of a tool whose operation returned r.
FormatText(name, r) ==
    CASE name = "list_chores" ->
             IF r.items = <<>> THEN Text("empty", <<>>, "none")
             ELSE Text("payload", r.items, "none")
      [] name = "get_chore" ->
             IF r.kind = "None" THEN Text("not_found", <<>>, "none")
             ELSE Text("payload", r.items, "none")
      [] name \in {"create_chore", "complete_chore"} -> Text("payload", r.items, "none")
      [] name = "delete_chore" -> Text("deleted", <<>>, "none")
      [] OTHER -> Text("unknown_tool", <<>>, "none")

\* The exceptions that derive from Exception.
ExceptionKinds == FailureKinds \cup {"ValidationError", "KeyError"}

\* Mutant: only the errors of httpx are caught.
CatchesHttpOnly(k) == k \in {"HTTPStatusError", "TimeoutException", "ConnectError"}

\* except Exception as e
Catches(k) == k \in ExceptionKinds

\* async with client: __aenter__ returns the client.
EnterScope ==
    /\ stage = "idle"
    /\ stage' = "body"
    /\ UNCHANGED <<tool, arguments, response, requests, returned, text, propagated,
                   is_closed, close_calls>>
    /\ UNCHANGED coreVars

\* The body of the block is empty (pass).
BodyPass ==
    /\ stage = "body"
    /\ stage' = "body_done"
    /\ UNCHANGED <<tool, arguments, response, requests, returned, text, propagated,
                   is_closed, close_calls>>
    /\ UNCHANGED coreVars

\* The body of the block awaits client.list_chores(fa, uid).
BodyListChores(fa, uid, resp) ==
    /\ stage = "body"
    /\ stage' = "body_done"
    /\ arguments' = [NoArguments EXCEPT !.filter_active = fa, !.assigned_to_user_id = uid]
    /\ response' = resp
    /\ requests' = requests + 1
    /\ returned' = ListChores(resp, fa, uid)
    /\ UNCHANGED <<tool, text, propagated, is_closed, close_calls>>
    /\ UNCHANGED coreVars

\* Mutant: the transport is closed only when the body raised nothing.
ExitScopeOnSuccess ==
    /\ stage = "body_done"
    /\ stage' = "after"
    /\ is_closed' = (is_closed \/ returned.kind # "raised")
    /\ close_calls' = IF returned.kind # "raised" THEN close_calls + 1 ELSE close_calls
    /\ propagated' = IF returned.kind = "raised" THEN returned.error ELSE "none"
    /\ UNCHANGED <<tool, arguments, response, requests, returned, text>>
    /\ UNCHANGED coreVars

\* Control leaves the block: __aexit__ awaits close(), which closes the
\* transport, and returns None, so what the body raised goes on.
ExitScope ==
    /\ stage = "body_done"
    /\ stage' = "after"
    /\ is_closed' = TRUE
    /\ close_calls' = close_calls + 1
    /\ propagated' = IF returned.kind = "raised" THEN returned.error ELSE "none"
    /\ UNCHANGED <<tool, arguments, response, requests, returned, text>>
    /\ UNCHANGED coreVars

\* call_tool(name, arguments) is invoked.
CallTool(name, a) ==
    /\ stage = "idle"
    /\ stage' = "tool"
    /\ tool' = name
    /\ arguments' = a
    /\ UNCHANGED <<response, requests, returned, text, propagated, is_closed, close_calls>>
    /\ UNCHANGED coreVars

\* The tool is unknown, or a required argument is missing: no request is made.
ToolWithoutRequest ==
    /\ stage = "tool"
    /\ tool \notin KnownTools \/ MissingKey(tool, arguments)
    /\ stage' = "tool_ran"
    /\ returned' = IF tool \in KnownTools THEN RaisedError("KeyError") ELSE NoReturn
    /\ UNCHANGED <<tool, arguments, response, requests, text, propagated, is_closed,
                   close_calls>>
    /\ UNCHANGED coreVars

\* The client operation of the tool runs; its _request comes back with resp.
ToolRequest(resp) ==
    /\ stage = "tool"
    /\ tool \in KnownTools /\ ~MissingKey(tool, arguments)
    /\ stage' = "tool_ran"
    /\ response' = resp
    /\ requests' = requests + 1
    /\ returned' = ToolOperation(tool, arguments, resp)
    /\ UNCHANGED <<tool, arguments, text, propagated, is_closed, close_calls>>
    /\ UNCHANGED coreVars

\* call_tool returns the text of the result, or of the exception it caught.
ToolReturn ==
    /\ stage = "tool_ran"
    /\ stage' = "tool_returned"
    /\ IF returned.kind = "raised"
       THEN IF Catches(returned.error)
            THEN text' = Text("error", <<>>, returned.error) /\ UNCHANGED propagated
            ELSE propagated' = returned.error /\ UNCHANGED text
       ELSE text' = FormatText(tool, returned) /\ UNCHANGED propagated
    /\ UNCHANGED <<tool, arguments, response, requests, returned, is_closed, close_calls>>
    /\ UNCHANGED coreVars

ToolNext ==
    \/ EnterScope
    \/ BodyPass
    \/ \E fa \in OptBools : \E uid \in OptUsers : \E resp \in Responses(RawLists) :
           BodyListChores(fa, uid, resp)
    \/ ExitScope
    \/ \E name \in ToolNames : \E a \in ArgumentsOf(name) : CallTool(name, a)
    \/ ToolWithoutRequest
    \/ \E resp \in Responses(RawLists) : ToolRequest(resp)
    \/ ToolReturn

ToolSpec == Init /\ [][ToolNext]_vars

\* ------------------------------------------------------------------ C21..C30
\* C21: once control has left the async with block, after a body that
\* completed or a body that raised, close has been called and the HTTP
\* transport is closed.
ClosedOnExit ==
    stage = "after" => (is_closed /\ close_calls = 1)

\* The body raised (list_chores failed, as in the tests) and the exception
\* went on out of the block; the transport is closed.
ClosedOnExitWitness ==
    /\ stage = "after"
    /\ propagated = "HTTPStatusError"
    /\ is_closed

InTool == stage \in {"tool", "tool_ran", "tool_returned"}

\* C22: no exception leaves call_tool; it returns a text, for every tool
\* name, and when the request of the operation failed (or the operation
\* raised otherwise) the text is the error message of that failure: the text
\* of a success, an empty list or a chore not found only follows a request
\* that succeeded.
ToolNeverPropagates ==
    /\ InTool => propagated = "none"
    /\ stage = "tool_returned" =>
           /\ text.kind # "none"
           /\ returned.kind = "raised" =>
                  (text.kind = "error" /\ text.error = returned.error)
           /\ response.kind \in FailureKinds =>
                  (text.kind = "error" /\ text.error = response.kind)
           /\ text.kind \in {"payload", "empty", "not_found", "deleted"} =>
                  (response.kind = "ok" /\ returned.kind # "raised")

\* get_chore whose request ran out of retries: the text is the error, not
\* "not found".
ToolNeverPropagatesWitness ==
    /\ stage = "tool_returned"
    /\ tool = "get_chore"
    /\ response.kind = "Exception"
    /\ text = Text("error", <<>>, "Exception")

\* isActive of a chore of the response (True when the response leaves it out).
ActiveOf(raw) == IF raw.isActive.set THEN raw.isActive.val ELSE TRUE

\* The chore of the response passes the filters given.
Keeps(raw) ==
    /\ arguments.filter_active.set => ActiveOf(raw) = arguments.filter_active.val
    /\ arguments.assigned_to_user_id.set =>
           raw.assignedTo = arguments.assigned_to_user_id.val

Kept == {i \in 1..Len(response.data) : Keeps(response.data[i])}

\* C23: list_chores makes one request and returns exactly the chores of the
\* response that pass the filters given (all of them when none is given),
\* in the order of the response.
ListChoresFilters ==
    (returned.kind = "list" /\ (tool = "list_chores" \/ stage \in {"body_done", "after"})) =>
        /\ requests = 1
        /\ Len(returned.items) = Cardinality(Kept)
        /\ \A i \in Kept :
               LET c == returned.items[Cardinality({k \in Kept : k <= i})]
               IN  /\ c.id = response.data[i].id
                   /\ c.isActive = ActiveOf(response.data[i])
                   /\ c.assignedTo = response.data[i].assignedTo

\* Two chores, the second one inactive and of another user, and
\* filter_active = False: the second one alone is returned.
ListChoresFiltersWitness ==
    /\ stage = "after"
    /\ arguments.filter_active = SomeBool(FALSE)
    /\ ~arguments.assigned_to_user_id.set
    /\ Len(response.data) = 2
    /\ ActiveOf(response.data[1]) /\ ~ActiveOf(response.data[2])
    /\ returned.kind = "list"
    /\ Len(returned.items) = 1
    /\ returned.items[1].id = response.data[2].id

\* C24: one caller at a time is inside the loop of acquire: a caller asleep
\* in it holds the lock, the others queued for the lock wait outside, and
\* while the lock is held only its holder's step changes tokens or
\* last_update.
OneCallerInBucket ==
    /\ [](/\ \A p \in Procs : pc[p] = "bucket_sleep" => Holds(p)
          /\ \A i \in 1..Len(lock) :
                 /\ \A k \in 1..Len(lock) : lock[i] = lock[k] => i = k
                 /\ i > 1 => pc[lock[i]] = "lock_wait"
          /\ Cardinality({p \in Procs : pc[p] = "bucket_sleep"}) <= 1)
    /\ [][(lock # <<>> /\ (tokens' # tokens \/ last_update' # last_update)) =>
              \A q \in Procs :
                  q # Head(lock) => (pc'[q] = pc[q] /\ acquired'[q] = acquired[q])]_vars

\* One caller sleeps in the loop, holding the lock, and the other waits for
\* the lock.
OneCallerInBucketWitness ==
    \E p, q \in Procs :
        /\ pc[p] = "bucket_sleep" /\ need[p] <= Capacity
        /\ pc[q] = "lock_wait"
        /\ lock = <<p, q>>

\* C25: tokens goes down only in a step that grants some caller exactly the
\* n tokens it asked for, and changes otherwise only to the refilled balance
\* (elapsed x rate more, at most the capacity); the steps of a request that
\* are no acquire (a call that comes back, whatever the outcome, the start
\* of a sleep, a terminal failure) leave tokens and last_update as they are.
TokensFrame ==
    [][LET refilled == Min(CapU, tokens + (now - last_update) * Rate)
       IN  /\ tokens' # tokens =>
                  \/ tokens' = refilled
                  \/ \E p \in Procs :
                         /\ acquired'[p] > acquired[p]
                         /\ acquired'[p] = acquired[p] + need'[p]
                         /\ tokens' = refilled - need'[p] * TokenUnit
           /\ tokens' < tokens =>
                  \E p \in Procs : /\ acquired'[p] > acquired[p]
                                    /\ acquired'[p] = acquired[p] + need'[p]
           /\ (\/ calls' # calls
               \/ sleeps' # sleeps
               \/ \E p \in Procs : IsRequest(p) /\ pc[p] # "done" /\ pc'[p] = "done") =>
                  (tokens' = tokens /\ last_update' = last_update /\ grantedU' = grantedU)]_vars

\* A request that failed twice and is over: two tokens are gone, less what
\* the time up to the second acquire refilled.
TokensFrameWitness ==
    \E p \in Procs :
        /\ IsRequest(p) /\ pc[p] = "done"
        /\ result[p].kind = "TimeoutException"
        /\ calls[p] = 2
        /\ grantedU = 2 * TokenUnit
        /\ last_update > 0
        /\ tokens = CapU + Rate * last_update - 2 * TokenUnit

\* The request has used its last attempt, and this is how that attempt ended.
LastAttemptEnded(p, o) ==
    /\ IsRequest(p)
    /\ max_retries[p] >= 1
    /\ Len(outcomes[p]) = max_retries[p]
    /\ Last(outcomes[p]) = o

\* C26: a request whose last attempt was answered with 429 sleeps once more,
\* for the Retry-After time, and fails with the retries-exhausted error only
\* when that sleep is over; one whose last attempt timed out or was answered
\* with 500 is over at once, with no sleep after that attempt.
LastRateLimitedWaits ==
    \A p \in Procs :
        /\ LastAttemptEnded(p, Response(429, FALSE)) =>
               /\ Len(sleeps[p]) = max_retries[p]
               /\ Last(sleeps[p]) = "retry_after"
               /\ lastSleep[p].attempt = max_retries[p] - 1
               /\ pc[p] \in {"request_sleep", "done"}
               /\ pc[p] = "done" => result[p] = Raised("Exception", 0, <<>>)
        /\ (LastAttemptEnded(p, TimeoutOutcome) \/ LastAttemptEnded(p, Response(500, FALSE))) =>
               /\ pc[p] = "done"
               /\ Len(sleeps[p]) = max_retries[p] - 1

\* C27: a request that is over has raised the generic retries-exhausted
\* error exactly when max_retries is 0 (no call, no token) or its last
\* attempt was answered with 429; a last attempt that timed out or was
\* answered with 500 ends with that attempt's own error.
GenericErrorIff ==
    \A p \in Procs :
        (IsRequest(p) /\ pc[p] = "done") =>
            /\ (result[p].kind = "Exception") <=>
                   (max_retries[p] = 0 \/ LastAttemptEnded(p, Response(429, FALSE)))
            /\ max_retries[p] = 0 => (calls[p] = 0 /\ acquired[p] = 0)
            /\ LastAttemptEnded(p, TimeoutOutcome) => result[p].kind = "TimeoutException"
            /\ LastAttemptEnded(p, Response(500, FALSE)) =>
                   (result[p].kind = "HTTPStatusError" /\ result[p].status = 500)

\* C28: a call of acquire(n) with n within the capacity suspends at most
\* once: when a caller asleep in the loop takes its next step it is granted
\* its n tokens (or it was cancelled), and a direct caller has waited once
\* at most.
SuspendsAtMostOnce ==
    /\ [](\A p \in Procs :
              (op[p] = "acquire" /\ need[p] <= Capacity) => waits[p] <= 1)
    /\ [][\A p \in Procs :
             (/\ pc[p] = "bucket_sleep"
              /\ need[p] <= Capacity
              /\ pc'[p] # pc[p] \/ wakeAt'[p] # wakeAt[p] \/ waits'[p] # waits[p]) =>
                 \/ acquired'[p] = acquired[p] + need[p] /\ waits'[p] = waits[p]
                 \/ result'[p].kind = "CancelledError"]_vars

\* A direct caller that found the bucket short, slept once and got its tokens.
SuspendsAtMostOnceWitness ==
    \E p \in Procs :
        /\ op[p] = "acquire"
        /\ need[p] = Capacity
        /\ waits[p] = 1
        /\ acquired[p] = need[p]

\* The outcomes that neither except branch of _request handles.
Unhandled(p, i) ==
    \/ outcomes[p][i] = ConnectErrorOutcome
    \/ outcomes[p][i] = Response(200, FALSE)
    \/ /\ outcomes[p][i] = Response(429, FALSE)
       /\ i = Len(outcomes[p])
       /\ result[p].kind = "ValueError"

\* C29: an attempt that fails with neither a timeout nor an HTTP status error
\* (the connection fails, the Retry-After value or the 2xx body does not
\* parse) is the last one: the request is over with that failure, with no
\* sleep after the attempt, and the attempt's token stays consumed.
UnhandledNotRetried ==
    \A p \in Procs :
        \A i \in 1..Len(outcomes[p]) :
            Unhandled(p, i) =>
                /\ i = Len(outcomes[p])
                /\ pc[p] = "done"
                /\ result[p].kind \in {"ConnectError", "JSONDecodeError", "ValueError"}
                /\ outcomes[p][i] = ConnectErrorOutcome <=> result[p].kind = "ConnectError"
                /\ outcomes[p][i] = Response(200, FALSE) <=> result[p].kind = "JSONDecodeError"
                /\ calls[p] = i
                /\ acquired[p] = i
                /\ Len(sleeps[p]) = i - 1
                /\ lastSleep[p].kind # "none" => lastSleep[p].attempt < i - 1

\* The connection fails on the second of three attempts allowed.
UnhandledNotRetriedWitness ==
    \E p \in Procs :
        /\ max_retries[p] = 3
        /\ Len(outcomes[p]) = 2
        /\ outcomes[p][2] = ConnectErrorOutcome
        /\ pc[p] = "done"

\* C30: the delay of a backoff is the one of the loop index of the attempt
\* that failed, which counts every earlier attempt, those answered with 429
\* included: at index a the wait is within a quarter of min(1 s * 2^a, 60 s).
BackoffByLoopIndex ==
    \A p \in Procs :
        (pc[p] = "request_sleep" /\ lastSleep[p].kind = "backoff") =>
            LET a == Len(outcomes[p]) - 1
                d == IF 1000 * Pow2(a) < 60000 THEN 1000 * Pow2(a) ELSE 60000
            IN  /\ lastSleep[p].attempt = a
                /\ attempt[p] = a
                /\ 4 * lastSleep[p].ms >= 3 * d
                /\ 4 * lastSleep[p].ms <= 5 * d

\* A 429 and then a timeout: the backoff is the one of index 1, 2 s.
BackoffByLoopIndexWitness ==
    \E p \in Procs :
        /\ outcomes[p] = <<Response(429, FALSE), TimeoutOutcome>>
        /\ pc[p] = "request_sleep"
        /\ lastSleep[p].kind = "backoff"
        /\ lastSleep[p].ms = 2000
====
